---- MODULE Spec2Model ----
(***************************************************************************)
(* LexTimeLine: the structured-output contract and the validation/repair   *)
(* pipeline between the raw model output and the typed domain objects.     *)
(*                                                                         *)
(* One request is modelled as a coroutine whose position is pc.  The       *)
(* suspension points are the outbound completion calls; the steps between  *)
(* two passes (the route's except clauses, the merge) are separate actions *)
(* so that the outcome of every pass is a visible state.                   *)
(*                                                                         *)
(* Free-text fields that no branch of the code inspects (description,      *)
(* legal_basis, recommended_action, date, entities, significance) are not  *)
(* carried; confidence_score is kept in tenths.                            *)
(***************************************************************************)
EXTENDS Integers, Sequences, FiniteSets, TLC

(***************************************************************************)
(* Bounds of the model.                                                    *)
(***************************************************************************)
MaxEvents == 2
MaxIds == 2
MaxContr == 2
MaxMsgLen == 2

SeqsUpTo(S, n) == UNION {[1..k -> S] : k \in 0..n}

Range(s) == {s[i] : i \in 1..Len(s)}

NoneVal == [kind |-> "none"]

(***************************************************************************)
(* models.py: the closed sets.                                             *)
(***************************************************************************)
ContradictionTypes ==
    {"FACTUAL_ERROR", "WITNESS_CONFLICT", "TIMELINE_IMPOSSIBILITY", "MISSING_INFO"}

SeverityAllowed == {"HIGH", "MEDIUM", "LOW"}

RiskAllowed == {"HIGH", "MEDIUM", "LOW", "NONE"}

LegalCategories ==
    {"Mahkeme Islemi", "Tanik Ifadesi", "Olay Ani", "Sozlesme / Anlasma",
     "Dilekce / Basvuru", "Karar / Hukum", "Tebligat / Bildirim",
     "Idari Islem", "Icra Takibi", "Diger"}

(***************************************************************************)
(* sorted(set(v)): the ascending sequence of the members of a set.         *)
(***************************************************************************)
RECURSIVE SortedSeq(_)
SortedSeq(S) ==
    IF S = {} THEN <<>>
    ELSE LET m == CHOOSE x \in S : \A y \in S : x <= y
         IN <<m>> \o SortedSeq(S \ {m})

(***************************************************************************)
(* Contradiction.validate_event_ids: a negative index is rejected, the     *)
(* rest is deduplicated and sorted.                                        *)
(***************************************************************************)
validate_event_ids_keep_order(v) ==
    IF \E k \in 1..Len(v) : v[k] < 0
    THEN [ok |-> FALSE, v |-> <<>>]
    ELSE [ok |-> TRUE, v |-> v]

validate_event_ids(v) ==
    IF \E k \in 1..Len(v) : v[k] < 0
    THEN [ok |-> FALSE, v |-> <<>>]
    ELSE [ok |-> TRUE, v |-> SortedSeq(Range(v))]

validate_severity_any(v) == TRUE

validate_severity(v) == v \in SeverityAllowed

validate_risk_level(v) == v \in RiskAllowed

(***************************************************************************)
(* Contradiction of an item: field constraints first (enum, min_length,    *)
(* ge, le), then the field validators.  The item is the raw dictionary     *)
(* after the index repair, so involved_event_ids is a list here.           *)
(***************************************************************************)
ContradictionValid(item) ==
    /\ item.contradiction_type \in ContradictionTypes
    /\ Len(item.involved_event_ids) >= 1
    /\ validate_event_ids(item.involved_event_ids).ok
    /\ validate_severity(item.severity)
    /\ item.confidence_score >= 0
    /\ item.confidence_score <= 10

Contradiction(item) ==
    [title |-> item.title,
     contradiction_type |-> item.contradiction_type,
     involved_event_ids |-> validate_event_ids(item.involved_event_ids).v,
     severity |-> item.severity,
     confidence_score |-> item.confidence_score]

(***************************************************************************)
(* logic_analyzer._parse_and_validate, lines 441-449: the index repair of  *)
(* one contradiction.  ids is the raw list, n is total_events.             *)
(***************************************************************************)
InBoundsInclusive(i, n) == 0 <= i /\ i <= n

InBounds(i, n) == 0 <= i /\ i < n

ClampIds(ids, n) ==
    LET valid_ids == SelectSeq(ids, LAMBDA i : InBounds(i, n))
    IN IF valid_ids # <<>> THEN valid_ids ELSE <<0>>

(***************************************************************************)
(* The response body of the cross-reference call, as json.loads sees it.   *)
(* kind: "empty" (None or ""), "malformed" (not JSON), "array" (JSON that  *)
(* is not an object) or "object".  A field of an object is tagged: t is    *)
(* "missing", "null", "list", or "nonint" for a list holding a value that  *)
(* is not a number.                                                        *)
(***************************************************************************)
IdValues == (0 - 1)..(MaxEvents + 1)

IdLists == SeqsUpTo(IdValues, MaxIds)

IdsFields ==
    {[t |-> "list", v |-> l] : l \in IdLists}
        \cup {[t |-> "missing", v |-> <<>>], [t |-> "null", v |-> <<>>],
              [t |-> "nonint", v |-> <<>>]}

RawItem(ids, ctype, sev, conf) ==
    [title |-> "t", contradiction_type |-> ctype, involved_event_ids |-> ids,
     severity |-> sev, confidence_score |-> conf]

ListOf(l) == [t |-> "list", v |-> l]

(* Items that differ in their index list only. *)
IndexItems == {RawItem(f, "FACTUAL_ERROR", "MEDIUM", 5) : f \in IdsFields}

(* Items that differ in the closed-domain fields. *)
FieldItems ==
    {RawItem(ListOf(<<0>>), "WITNESS_CONFLICT", s, 9) :
        s \in SeverityAllowed \cup {"CRITICAL"}}
    \cup {RawItem(ListOf(<<0>>), "MISSING_INFO", "HIGH", c) : c \in {0 - 1, 10, 11}}
    \cup {RawItem(ListOf(<<0>>), "OTHER", "LOW", 5),
          RawItem(ListOf(<<MaxEvents, 0, 0>>), "TIMELINE_IMPOSSIBILITY", "LOW", 3)}

ContradictionsFields ==
    {ListOf(<<c>>) : c \in IndexItems}
        \cup {ListOf(l) : l \in SeqsUpTo(FieldItems, MaxContr)}
        \cup {[t |-> "missing", v |-> <<>>], [t |-> "null", v |-> <<>>]}

DeclaredTotals == {0 - 1, 0, MaxContr}

DeclaredRisks == RiskAllowed \cup {"CRITICAL"}

LogicBodies ==
    {[kind |-> "empty"], [kind |-> "malformed"], [kind |-> "array"]}
        \cup [kind : {"object"}, contradictions : ContradictionsFields,
              total_contradictions_found : DeclaredTotals,
              risk_level : DeclaredRisks, analysis_notes : {"notes"}]

(***************************************************************************)
(* The response body of the extraction call.                               *)
(***************************************************************************)
RawEvent(d, page, cat) == [description |-> d, source_page |-> page, category |-> cat]

ValidRawEvents == {RawEvent("a", 1, "Mahkeme Islemi"), RawEvent("b", 2, "Serbest")}

RawEvents == ValidRawEvents \cup {RawEvent("c", 0, "Diger")}

ExtractBodies ==
    {[kind |-> "empty"], [kind |-> "malformed"], [kind |-> "array"]}
        \cup [kind : {"object"}, events : SeqsUpTo(RawEvents, MaxEvents),
              document_summary : {"summary"},
              total_events_found : {0 - 1, 0, MaxEvents},
              primary_jurisdiction : {"null"}, case_number : {"null"}]

(***************************************************************************)
(* The message of a failed completion call: a sequence of words.  str(exc) *)
(* is searched for the markers after lower(), so the words carry case.     *)
(***************************************************************************)
Words ==
    {"JSON_Schema", "response_format", "Unsupported", "not", "Supported",
     "invalid", "Parameter", "quota"}

ErrorMessages == SeqsUpTo(Words, MaxMsgLen)

(***************************************************************************)
(* The subclass of OpenAIError the client raises: a rejected request       *)
(* (HTTP 400), a refused key or region, an exhausted quota or rate limit,  *)
(* a broken connection.  The handlers catch the base class and read the    *)
(* message only, so the class and the message vary independently.          *)
(***************************************************************************)
ErrorClasses ==
    {"BadRequestError", "PermissionDeniedError", "RateLimitError", "APIConnectionError"}

CallErrors ==
    [kind : {"OpenAIError"}, cls : ErrorClasses, msg : ErrorMessages]
        \cup {[kind |-> "Other", cls |-> "Exception", msg |-> <<>>]}

Raise(e) == [kind |-> "raise", exc |-> e]

Return(v) == [kind |-> "return", value |-> v]

(***************************************************************************)
(* logic_analyzer._parse_and_validate, step by step.                       *)
(***************************************************************************)
(* lines 434-438: json.loads *)
LogicLoads(raw) ==
    IF raw.kind = "malformed" THEN Raise("ValueError") ELSE Return(raw)

(* lines 441-449: the loop over data.get("contradictions", []) *)
RepairItem(item, n) ==
    [item EXCEPT !.involved_event_ids =
        ClampIds(IF item.involved_event_ids.t = "missing" THEN <<>>
                 ELSE item.involved_event_ids.v, n)]

RepairIndices(data, n) ==
    IF data.kind # "object" THEN Raise("AttributeError")
    ELSE IF data.contradictions.t = "missing" THEN Return(data)
    ELSE IF data.contradictions.t = "null" THEN Raise("TypeError")
    ELSE LET items == data.contradictions.v
         IN IF \E k \in 1..Len(items) :
                   items[k].involved_event_ids.t \in {"null", "nonint"}
            THEN Raise("TypeError")
            ELSE Return([data EXCEPT !.contradictions =
                    ListOf([k \in 1..Len(items) |-> RepairItem(items[k], n)])])

(* lines 451-455: LogicAnalysisResult of the repaired dictionary *)
LogicConstruct(data) ==
    IF /\ data.contradictions.t = "list"
       /\ \A k \in 1..Len(data.contradictions.v) :
              ContradictionValid(data.contradictions.v[k])
       /\ data.total_contradictions_found >= 0
       /\ validate_risk_level(data.risk_level)
    THEN Return([contradictions |->
                    [k \in 1..Len(data.contradictions.v) |->
                        Contradiction(data.contradictions.v[k])],
                 total_contradictions_found |-> data.total_contradictions_found,
                 risk_level |-> data.risk_level,
                 analysis_notes |-> data.analysis_notes])
    ELSE Raise("ValueError")

(* lines 457-465: the count repair *)
LogicRepairCountSkipped(result) == result

LogicRepairCount(result) ==
    [result EXCEPT !.total_contradictions_found = Len(result.contradictions)]

LogicParseAndValidate(raw, n) ==
    LET loaded == LogicLoads(raw)
    IN IF loaded.kind = "raise" THEN loaded
       ELSE LET repaired == RepairIndices(loaded.value, n)
            IN IF repaired.kind = "raise" THEN repaired
               ELSE LET built == LogicConstruct(repaired.value)
                    IN IF built.kind = "raise" THEN built
                       ELSE Return(LogicRepairCount(built.value))

(***************************************************************************)
(* TimelineEvent / TimelineResponse and llm_extractor._parse_and_validate. *)
(***************************************************************************)
TimelineEventValid(e) == e.source_page >= 1

ExtractLoads(raw) ==
    IF raw.kind = "malformed" THEN Raise("ValueError") ELSE Return(raw)

(* variant: the construction without its except clause *)
ExtractConstructUnwrapped(data) ==
    IF data.kind # "object" THEN Raise("TypeError")
    ELSE IF /\ \A k \in 1..Len(data.events) : TimelineEventValid(data.events[k])
            /\ data.total_events_found >= 0
    THEN Return([events |-> data.events,
                 document_summary |-> data.document_summary,
                 total_events_found |-> data.total_events_found,
                 primary_jurisdiction |-> data.primary_jurisdiction,
                 case_number |-> data.case_number])
    ELSE Raise("ValueError")

(* lines 390-394: every exception of the construction becomes ValueError *)
ExtractConstruct(data) ==
    IF /\ data.kind = "object"
       /\ \A k \in 1..Len(data.events) : TimelineEventValid(data.events[k])
       /\ data.total_events_found >= 0
    THEN Return([events |-> data.events,
                 document_summary |-> data.document_summary,
                 total_events_found |-> data.total_events_found,
                 primary_jurisdiction |-> data.primary_jurisdiction,
                 case_number |-> data.case_number])
    ELSE Raise("ValueError")

(* lines 396-404: the count repair *)
ExtractRepairCountSkipped(tl) == tl

ExtractRepairCount(tl) == [tl EXCEPT !.total_events_found = Len(tl.events)]

(* variant: the count is repaired on the parsed dictionary, before the
   construction *)
ExtractParseAndValidateCountFirst(raw) ==
    LET loaded == ExtractLoads(raw)
    IN IF loaded.kind = "raise" THEN loaded
       ELSE IF loaded.value.kind # "object" THEN Raise("ValueError")
       ELSE ExtractConstruct(
                [loaded.value EXCEPT !.total_events_found = Len(loaded.value.events)])

ExtractParseAndValidate(raw) ==
    LET loaded == ExtractLoads(raw)
    IN IF loaded.kind = "raise" THEN loaded
       ELSE LET built == ExtractConstruct(loaded.value)
            IN IF built.kind = "raise" THEN built
               ELSE Return(ExtractRepairCount(built.value))

(***************************************************************************)
(* _build_structured_response_format and _should_fallback_to_json_object   *)
(* (the same code in both services).                                       *)
(***************************************************************************)
TIMELINE_SCHEMA_NAME == "timeline_response"

LOGIC_SCHEMA_NAME == "logic_analysis_result"

JsonObjectFormat == [type |-> "json_object"]

StructuredResponseFormatNotStrict(name) ==
    [type |-> "json_schema", strict |-> FALSE, name |-> name]

StructuredResponseFormat(name) ==
    [type |-> "json_schema", strict |-> TRUE, name |-> name]

LowerWord(w) ==
    CASE w = "JSON_Schema" -> "json_schema"
      [] w = "Unsupported" -> "unsupported"
      [] w = "Supported" -> "supported"
      [] w = "Parameter" -> "parameter"
      [] OTHER -> w

Lower(msg) == [k \in 1..Len(msg) |-> LowerWord(msg[k])]

Markers ==
    {<<"json_schema">>, <<"response_format">>, <<"unsupported">>,
     <<"not", "supported">>, <<"invalid", "parameter">>}

Contains(msg, marker) ==
    \E i \in 0..(Len(msg) - Len(marker)) :
        \A j \in 1..Len(marker) : msg[i + j] = marker[j]

ShouldFallbackCaseSensitive(msg) == \E m \in Markers : Contains(msg, m)

ShouldFallbackToJsonObject(msg) == \E m \in Markers : Contains(Lower(msg), m)

(***************************************************************************)
(* The objects the code builds without a model response.                   *)
(***************************************************************************)
EmptyTimelineNote == "Zaman cizelgesinde olay bulunamadigi icin celiski analizi yapilamadi."

DegradedNote == "Celiski analizi bir hata nedeniyle tamamlanamadi."

(* logic_analyzer.detect_contradictions, lines 170-175 *)
EmptyTimelineResult ==
    [contradictions |-> <<>>, total_contradictions_found |-> 0,
     risk_level |-> "NONE", analysis_notes |-> EmptyTimelineNote]

(* main.analyze_document_deep, lines 373-381 *)
DegradedResult ==
    [contradictions |-> <<>>, total_contradictions_found |-> 0,
     risk_level |-> "NONE", analysis_notes |-> DegradedNote]

(* variant: risk_level is not passed on and keeps the field's default *)
FromPhasesDefaultRisk(tl, logic) ==
    [events |-> tl.events,
     document_summary |-> tl.document_summary,
     total_events_found |-> tl.total_events_found,
     primary_jurisdiction |-> tl.primary_jurisdiction,
     case_number |-> tl.case_number,
     contradictions |-> logic.contradictions,
     total_contradictions_found |-> logic.total_contradictions_found,
     risk_level |-> "NONE",
     analysis_notes |-> logic.analysis_notes]

(* models.AnalysisResult.from_phases *)
FromPhases(tl, logic) ==
    [events |-> tl.events,
     document_summary |-> tl.document_summary,
     total_events_found |-> tl.total_events_found,
     primary_jurisdiction |-> tl.primary_jurisdiction,
     case_number |-> tl.case_number,
     contradictions |-> logic.contradictions,
     total_contradictions_found |-> logic.total_contradictions_found,
     risk_level |-> logic.risk_level,
     analysis_notes |-> logic.analysis_notes]

(***************************************************************************)
(* The timelines detect_contradictions is called with directly: valid      *)
(* TimelineResponse objects of 0..MaxEvents events.                        *)
(***************************************************************************)
GivenTimelines ==
    {[events |-> ev, document_summary |-> "summary",
      total_events_found |-> Len(ev),
      primary_jurisdiction |-> "null", case_number |-> "null"] :
        ev \in SeqsUpTo(ValidRawEvents, MaxEvents)}

(***************************************************************************)
(* State.                                                                  *)
(*   entry       the operation under execution                             *)
(*   env_ok      AZURE_OPENAI_API_KEY and AZURE_OPENAI_ENDPOINT are set    *)
(*   pc          position of the coroutine                                 *)
(*   clients     number of AsyncAzureOpenAI clients constructed            *)
(*   calls       the completion calls issued so far, in order              *)
(*   exc         the exception the first request raised, until handled    *)
(*   raw         raw_content of the pass in progress                       *)
(*   extract_out outcome of extract_timeline (return value or exception)   *)
(*   timeline    the TimelineResponse handed to detect_contradictions      *)
(*   logic_out   outcome of detect_contradictions                          *)
(*   result      what the route answers: AnalysisResult or HTTP error      *)
(***************************************************************************)
VARIABLES entry, env_ok, pc, clients, calls, exc, raw, extract_out, timeline,
          logic_out, result

(***************************************************************************)
(* The state of the other entry points: the context of a chat request, the *)
(* document, budget and outputs of the PDF parser, and the requests that   *)
(* are served concurrently with what they share.  An analyze request       *)
(* leaves them at rest.                                                    *)
(***************************************************************************)
VARIABLES context, doc, max_chars, pages, prompt_text, reqs, module_state

other_vars == <<context, doc, max_chars, pages, prompt_text, reqs, module_state>>

analyze_vars == <<exc, raw, extract_out, timeline, logic_out>>

vars == <<entry, env_ok, pc, clients, calls, exc, raw, extract_out, timeline,
          logic_out, result, context, doc, max_chars, pages, prompt_text, reqs,
          module_state>>

OthersAtRest ==
    /\ context = NoneVal
    /\ doc = NoneVal
    /\ max_chars = 0
    /\ pages = NoneVal
    /\ prompt_text = NoneVal
    /\ reqs = NoneVal
    /\ module_state = NoneVal

Init ==
    /\ entry \in {"analyze_deep", "detect_contradictions"}
    /\ env_ok \in BOOLEAN
    /\ pc = IF entry = "analyze_deep" THEN "extract_start" ELSE "logic_start"
    /\ clients = 0
    /\ calls = <<>>
    /\ exc = NoneVal
    /\ raw = NoneVal
    /\ extract_out = NoneVal
    /\ timeline \in IF entry = "analyze_deep" THEN {NoneVal} ELSE GivenTimelines
    /\ logic_out = NoneVal
    /\ result = NoneVal
    /\ OthersAtRest

Call(pass, format) == [pass |-> pass, response_format |-> format]

(***************************************************************************)
(* logic_analyzer._serialize_events_for_prompt: the events as the user     *)
(* message shows them, each with the id enumerate() gives it.              *)
(***************************************************************************)
EventIdOneBased(idx) == idx + 1

EventId(idx) == idx

SerializeEventsForPrompt(events) ==
    [k \in 1..Len(events) |->
        [id |-> EventId(k - 1),
         description |-> events[k].description,
         source_page |-> events[k].source_page,
         category |-> events[k].category]]

(* the request of the cross-reference pass: its format and the events of
   its user message (lines 180-200) *)
LogicCall(format, tl) ==
    [pass |-> "logic", response_format |-> format,
     events_json |-> SerializeEventsForPrompt(tl.events)]

(***************************************************************************)
(* llm_extractor.extract_timeline                                          *)
(***************************************************************************)
(* lines 211-227: the part after the completion call returned *)
ExtractFinish(content) ==
    IF content.kind = "empty" THEN Raise("ValueError")
    ELSE ExtractParseAndValidate(content)

(* lines 164-193: client, messages, first request *)
ExtractStart ==
    /\ pc = "extract_start"
    /\ IF ~env_ok
       THEN /\ extract_out' = Raise("ValueError")
            /\ pc' = "extract_done"
            /\ UNCHANGED <<clients, calls>>
       ELSE /\ clients' = clients + 1
            /\ calls' = Append(calls,
                   Call("extract", StructuredResponseFormat(TIMELINE_SCHEMA_NAME)))
            /\ pc' = "extract_await1"
            /\ UNCHANGED extract_out
    /\ UNCHANGED <<entry, env_ok, exc, raw, timeline, logic_out, result>>
    /\ UNCHANGED other_vars

(* variant: a body that fails validation is asked for again in relaxed mode *)
ExtractFirstReturnsRetrying ==
    /\ pc = "extract_await1"
    /\ \E content \in ExtractBodies :
          /\ raw' = content
          /\ IF ExtractFinish(content).kind = "raise"
             THEN /\ calls' = Append(calls, Call("extract", JsonObjectFormat))
                  /\ pc' = "extract_await2"
                  /\ UNCHANGED extract_out
             ELSE /\ extract_out' = ExtractFinish(content)
                  /\ pc' = "extract_done"
                  /\ UNCHANGED calls
    /\ UNCHANGED <<entry, env_ok, clients, exc, timeline, logic_out, result>>
    /\ UNCHANGED other_vars

ExtractFirstReturns ==
    /\ pc = "extract_await1"
    /\ \E content \in ExtractBodies :
          /\ raw' = content
          /\ extract_out' = ExtractFinish(content)
    /\ pc' = "extract_done"
    /\ UNCHANGED <<entry, env_ok, clients, calls, exc, timeline, logic_out, result>>
    /\ UNCHANGED other_vars

(* the first request raises: an OpenAIError with its message, or an
   exception of another class *)
ExtractFirstFails ==
    /\ pc = "extract_await1"
    /\ \E err \in CallErrors : exc' = err
    /\ pc' = "extract_except"
    /\ UNCHANGED <<entry, env_ok, clients, calls, raw, extract_out, timeline, logic_out, result>>
    /\ UNCHANGED other_vars

(* lines 194-209: the except clause of the first request *)
ExtractExcept ==
    /\ pc = "extract_except"
    /\ IF exc.kind = "OpenAIError" /\ ShouldFallbackToJsonObject(exc.msg)
       THEN /\ calls' = Append(calls, Call("extract", JsonObjectFormat))
            /\ pc' = "extract_await2"
            /\ UNCHANGED extract_out
       ELSE /\ extract_out' = Raise(exc.kind)
            /\ pc' = "extract_done"
            /\ UNCHANGED calls
    /\ exc' = NoneVal
    /\ UNCHANGED <<entry, env_ok, clients, raw, timeline, logic_out, result>>
    /\ UNCHANGED other_vars

ExtractSecondReturns ==
    /\ pc = "extract_await2"
    /\ \E content \in ExtractBodies :
          /\ raw' = content
          /\ extract_out' = ExtractFinish(content)
    /\ pc' = "extract_done"
    /\ UNCHANGED <<entry, env_ok, clients, calls, exc, timeline, logic_out, result>>
    /\ UNCHANGED other_vars

(* the second request is not inside a try: its failure propagates *)
ExtractSecondFails ==
    /\ pc = "extract_await2"
    /\ \E err \in CallErrors : extract_out' = Raise(err.kind)
    /\ pc' = "extract_done"
    /\ UNCHANGED <<entry, env_ok, clients, calls, exc, raw, timeline, logic_out, result>>
    /\ UNCHANGED other_vars

(***************************************************************************)
(* main.analyze_document_deep, step 2 (lines 335-349): the except clauses  *)
(* around extract_timeline.                                                *)
(***************************************************************************)
HttpError(code) == [kind |-> "http_error", status |-> code]

Response(body) == [kind |-> "response", status |-> 200, body |-> body]

(* variant: a failed extraction is replaced by a stored timeline and the
   request goes on *)
RouteAfterExtractCarryingOn ==
    /\ pc = "extract_done"
    /\ entry = "analyze_deep"
    /\ timeline' = IF extract_out.kind = "raise"
                   THEN CHOOSE tl \in GivenTimelines : Len(tl.events) = 1
                   ELSE extract_out.value
    /\ pc' = "logic_start"
    /\ raw' = NoneVal
    /\ UNCHANGED <<entry, env_ok, clients, calls, exc, extract_out, logic_out, result>>
    /\ UNCHANGED other_vars

RouteAfterExtract ==
    /\ pc = "extract_done"
    /\ entry = "analyze_deep"
    /\ IF extract_out.kind = "raise"
       THEN /\ result' = HttpError(IF extract_out.exc = "ValueError" THEN 422 ELSE 500)
            /\ pc' = "done"
            /\ UNCHANGED timeline
       ELSE /\ timeline' = extract_out.value
            /\ pc' = "logic_start"
            /\ UNCHANGED result
    /\ raw' = NoneVal
    /\ UNCHANGED <<entry, env_ok, clients, calls, exc, extract_out, logic_out>>
    /\ UNCHANGED other_vars

(***************************************************************************)
(* logic_analyzer.detect_contradictions                                    *)
(***************************************************************************)
(* lines 218-234: the part after the completion call returned *)
LogicFinish(content, tl) ==
    IF content.kind = "empty" THEN Raise("ValueError")
    ELSE LogicParseAndValidate(content, Len(tl.events))

(* line 168: not timeline.events *)
NoEventsNever(tl) == FALSE

NoEvents(tl) == tl.events = <<>>

(* lines 168-200: early exit, client, messages, first request *)
LogicStart ==
    /\ pc = "logic_start"
    /\ IF NoEvents(timeline)
       THEN /\ logic_out' = Return(EmptyTimelineResult)
            /\ pc' = "logic_done"
            /\ UNCHANGED <<clients, calls>>
       ELSE IF ~env_ok
       THEN /\ logic_out' = Raise("ValueError")
            /\ pc' = "logic_done"
            /\ UNCHANGED <<clients, calls>>
       ELSE /\ clients' = clients + 1
            /\ calls' = Append(calls,
                   LogicCall(StructuredResponseFormat(LOGIC_SCHEMA_NAME), timeline))
            /\ pc' = "logic_await1"
            /\ UNCHANGED logic_out
    /\ UNCHANGED <<entry, env_ok, exc, raw, extract_out, timeline, result>>
    /\ UNCHANGED other_vars

LogicFirstReturns ==
    /\ pc = "logic_await1"
    /\ \E content \in LogicBodies :
          /\ raw' = content
          /\ logic_out' = LogicFinish(content, timeline)
    /\ pc' = "logic_done"
    /\ UNCHANGED <<entry, env_ok, clients, calls, exc, extract_out, timeline, result>>
    /\ UNCHANGED other_vars

(* the first request raises: an OpenAIError with its message, or an
   exception of another class *)
LogicFirstFails ==
    /\ pc = "logic_await1"
    /\ \E err \in CallErrors : exc' = err
    /\ pc' = "logic_except"
    /\ UNCHANGED <<entry, env_ok, clients, calls, raw, extract_out, timeline, logic_out, result>>
    /\ UNCHANGED other_vars

(* lines 201-216: the except clause of the first request *)
LogicExcept ==
    /\ pc = "logic_except"
    /\ IF exc.kind = "OpenAIError" /\ ShouldFallbackToJsonObject(exc.msg)
       THEN /\ calls' = Append(calls, LogicCall(JsonObjectFormat, timeline))
            /\ pc' = "logic_await2"
            /\ UNCHANGED logic_out
       ELSE /\ logic_out' = Raise(exc.kind)
            /\ pc' = "logic_done"
            /\ UNCHANGED calls
    /\ exc' = NoneVal
    /\ UNCHANGED <<entry, env_ok, clients, raw, extract_out, timeline, result>>
    /\ UNCHANGED other_vars

LogicSecondReturns ==
    /\ pc = "logic_await2"
    /\ \E content \in LogicBodies :
          /\ raw' = content
          /\ logic_out' = LogicFinish(content, timeline)
    /\ pc' = "logic_done"
    /\ UNCHANGED <<entry, env_ok, clients, calls, exc, extract_out, timeline, result>>
    /\ UNCHANGED other_vars

LogicSecondFails ==
    /\ pc = "logic_await2"
    /\ \E err \in CallErrors : logic_out' = Raise(err.kind)
    /\ pc' = "logic_done"
    /\ UNCHANGED <<entry, env_ok, clients, calls, exc, raw, extract_out, timeline, result>>
    /\ UNCHANGED other_vars

(***************************************************************************)
(* main.analyze_document_deep, step 3 and the merge (lines 352-394).       *)
(* except ValueError answers 422; any other Exception is the degraded      *)
(* mode.                                                                   *)
(***************************************************************************)
AnswersUnprocessableAlways(e) == TRUE

AnswersUnprocessable(e) == e = "ValueError"

RouteAfterLogic ==
    /\ pc = "logic_done"
    /\ entry = "analyze_deep"
    /\ IF logic_out.kind = "raise" /\ AnswersUnprocessable(logic_out.exc)
       THEN result' = HttpError(422)
       ELSE LET logic_result ==
                    IF logic_out.kind = "raise" THEN DegradedResult
                    ELSE logic_out.value
            IN result' = Response(FromPhases(timeline, logic_result))
    /\ pc' = "done"
    /\ raw' = NoneVal
    /\ UNCHANGED <<entry, env_ok, clients, calls, exc, extract_out, timeline, logic_out>>
    /\ UNCHANGED other_vars

Next ==
    \/ ExtractStart
    \/ ExtractFirstReturns
    \/ ExtractFirstFails
    \/ ExtractExcept
    \/ ExtractSecondReturns
    \/ ExtractSecondFails
    \/ RouteAfterExtract
    \/ LogicStart
    \/ LogicFirstReturns
    \/ LogicFirstFails
    \/ LogicExcept
    \/ LogicSecondReturns
    \/ LogicSecondFails
    \/ RouteAfterLogic

Spec == Init /\ [][Next]_vars

(***************************************************************************)
(* POST /chat: main_chat_endpoint.chat_endpoint and                        *)
(* chat_service.chat_with_case.                                            *)
(*                                                                         *)
(* The context is the dictionary the client sends back.  Its events entry  *)
(* is missing, null, a list of event dictionaries or a value that is not a *)
(* list; its contradictions entry is missing or a list of dictionaries     *)
(* with the keys under which AnalysisResult serializes a Contradiction.    *)
(***************************************************************************)
ChatEvent(d, cat) == [date |-> "2024", description |-> d, category |-> cat]

ChatEvents == {ChatEvent("a", "Mahkeme Islemi"), ChatEvent("b", "Diger")}

ChatEventsFields ==
    {[t |-> "list", v |-> l] : l \in SeqsUpTo(ChatEvents, MaxEvents)}
        \cup {[t |-> "missing", v |-> <<>>], [t |-> "null", v |-> <<>>],
              [t |-> "scalar", v |-> <<>>]}

ChatContradiction(ctype, sev, ids) ==
    [title |-> "t", contradiction_type |-> ctype, severity |-> sev,
     involved_event_ids |-> ids]

ChatContradictions ==
    {ChatContradiction("FACTUAL_ERROR", "HIGH", <<0>>),
     ChatContradiction("WITNESS_CONFLICT", "LOW", <<0, MaxEvents - 1>>),
     ChatContradiction("MISSING_INFO", "MEDIUM", <<MaxEvents - 1>>)}

ChatContradictionsFields ==
    {[t |-> "list", v |-> l] : l \in SeqsUpTo(ChatContradictions, MaxContr)}
        \cup {[t |-> "missing", v |-> <<>>]}

ChatContexts ==
    [events : ChatEventsFields, contradictions : ChatContradictionsFields,
     risk_level : {"HIGH"}, document_summary : {"summary"}]

(* chat_endpoint line 88: not req.context.get("events") *)
NoContextEventsOnlyMissing(ctx) == ctx.events.t = "missing"

NoContextEvents(ctx) ==
    \/ ctx.events.t \in {"missing", "null"}
    \/ ctx.events.t = "list" /\ ctx.events.v = <<>>

(* the number of a citation: enumerate() counts from 0, the text shows
   i + 1 (lines 66, 75, 78) *)
CitationNumberZeroBased(i) == i

CitationNumber(i) == i + 1

(* c.get(key, default) on a dictionary of the context *)
DictGet(d, key, default) == IF key \in DOMAIN d THEN d[key] ELSE default

(* _build_context_str, lines 62-70: the lines of one event *)
EventLines(i, ev) ==
    [label |-> CitationNumber(i),
     date |-> DictGet(ev, "date", "?"),
     category |-> DictGet(ev, "category", "?"),
     description |-> DictGet(ev, "description", "")]

(* _build_context_str, lines 74-84: the lines of one contradiction *)
ContradictionLines(i, c) ==
    LET ids == DictGet(c, "involved_event_ids", <<>>)
    IN [label |-> CitationNumber(i),
        type |-> DictGet(c, "type", "?"),
        severity |-> DictGet(c, "severity", "?"),
        title |-> DictGet(c, "title", ""),
        refs |-> [k \in 1..Len(ids) |-> CitationNumber(ids[k])]]

(* _build_context_str: the grounding block, line by line.  enumerate() of  *)
(* a value that is not a list of dictionaries raises.                      *)
BuildContextStr(ctx) ==
    IF ctx.events.t = "null" THEN Raise("TypeError")
    ELSE IF ctx.events.t = "scalar" THEN Raise("AttributeError")
    ELSE LET events == ctx.events.v
             contras == ctx.contradictions.v
         IN Return(
              [risk_level |-> ctx.risk_level,
               total_events |-> Len(events),
               total_contradictions |-> Len(contras),
               document_summary |-> ctx.document_summary,
               events |-> [k \in 1..Len(events) |-> EventLines(k - 1, events[k])],
               contradictions |->
                   [k \in 1..Len(contras) |-> ContradictionLines(k - 1, contras[k])]])

ChatAnswers == {"", "answer"}

ChatResponse(answer) == Response([answer |-> answer, model_used |-> "gpt-4o"])

ChatInit ==
    /\ entry = "chat"
    /\ env_ok \in BOOLEAN
    /\ pc = "chat_start"
    /\ clients = 0
    /\ calls = <<>>
    /\ exc = NoneVal
    /\ raw = NoneVal
    /\ extract_out = NoneVal
    /\ timeline = NoneVal
    /\ logic_out = NoneVal
    /\ result = NoneVal
    /\ context \in ChatContexts
    /\ doc = NoneVal
    /\ max_chars = 0
    /\ pages = NoneVal
    /\ prompt_text = NoneVal
    /\ reqs = NoneVal
    /\ module_state = NoneVal

chat_rest == <<entry, env_ok, context, doc, max_chars, pages, prompt_text, reqs,
               module_state>>

(* chat_endpoint lines 88-95 *)
ChatRejectEmpty ==
    /\ pc = "chat_start"
    /\ NoContextEvents(context)
    /\ result' = HttpError(422)
    /\ pc' = "done"
    /\ UNCHANGED <<clients, calls>>
    /\ UNCHANGED analyze_vars
    /\ UNCHANGED chat_rest

(* chat_endpoint lines 97-108 with chat_with_case lines 115-131: the       *)
(* client, the grounding block, the request.  The constructor raises       *)
(* without credentials and the block may raise: both are answered 503.     *)
ChatStart ==
    /\ pc = "chat_start"
    /\ ~NoContextEvents(context)
    /\ IF ~env_ok
       THEN /\ result' = HttpError(503)
            /\ pc' = "done"
            /\ UNCHANGED <<clients, calls>>
       ELSE /\ clients' = clients + 1
            /\ IF BuildContextStr(context).kind = "raise"
               THEN /\ result' = HttpError(503)
                    /\ pc' = "done"
                    /\ UNCHANGED calls
               ELSE /\ calls' = Append(calls,
                          [pass |-> "chat",
                           system_context |-> BuildContextStr(context).value])
                    /\ pc' = "chat_await"
                    /\ UNCHANGED result
    /\ UNCHANGED analyze_vars
    /\ UNCHANGED chat_rest

(* chat_with_case line 133 and chat_endpoint line 110 *)
ChatReturns ==
    /\ pc = "chat_await"
    /\ \E answer \in ChatAnswers : result' = ChatResponse(answer)
    /\ pc' = "done"
    /\ UNCHANGED <<clients, calls>>
    /\ UNCHANGED analyze_vars
    /\ UNCHANGED chat_rest

(* chat_endpoint lines 103-108 *)
ChatFails ==
    /\ pc = "chat_await"
    /\ result' = HttpError(503)
    /\ pc' = "done"
    /\ UNCHANGED <<clients, calls>>
    /\ UNCHANGED analyze_vars
    /\ UNCHANGED chat_rest

ChatNext ==
    \/ ChatRejectEmpty
    \/ ChatStart
    \/ ChatReturns
    \/ ChatFails

ChatSpec == ChatInit /\ [][ChatNext]_vars

(***************************************************************************)
(* The JSON schemas of the strict requests: llm_extractor._build_json_     *)
(* schema and logic_analyzer._build_logic_json_schema.  A "type" is the    *)
(* set of its type names, a "required" list is a sequence, "properties" is *)
(* a record; descriptions are left out.                                    *)
(***************************************************************************)
StringType == [type |-> {"string"}]

NullableStringType == [type |-> {"string", "null"}]

IntegerType == [type |-> {"integer"}]

NumberType == [type |-> {"number"}]

EnumType(values) == [type |-> {"string"}, enum |-> values]

ArrayType(items) == [type |-> {"array"}, items |-> items]

ObjectType(required, properties) ==
    [type |-> {"object"}, additionalProperties |-> FALSE,
     required |-> required, properties |-> properties]

(* llm_extractor.py lines 262-269 *)
EventRequiredWithoutOptional ==
    <<"date", "description", "source_page", "entities", "category">>

EventRequired ==
    <<"date", "description", "source_page", "entities", "category", "significance">>

(* llm_extractor.py lines 259-306 *)
EventSchema ==
    ObjectType(EventRequired,
        [date |-> StringType,
         description |-> StringType,
         source_page |-> IntegerType,
         entities |-> ArrayType(StringType),
         category |-> EnumType(LegalCategories),
         significance |-> NullableStringType])

BuildJsonSchema ==
    ObjectType(
        <<"events", "document_summary", "total_events_found",
          "primary_jurisdiction", "case_number">>,
        [events |-> ArrayType(EventSchema),
         document_summary |-> StringType,
         total_events_found |-> IntegerType,
         primary_jurisdiction |-> NullableStringType,
         case_number |-> NullableStringType])

(* logic_analyzer.py lines 315-365 *)
ContradictionSchema ==
    ObjectType(
        <<"title", "contradiction_type", "description", "involved_event_ids",
          "severity", "confidence_score", "legal_basis", "recommended_action">>,
        [title |-> StringType,
         contradiction_type |-> EnumType(ContradictionTypes),
         description |-> StringType,
         involved_event_ids |-> ArrayType(IntegerType),
         severity |-> EnumType(SeverityAllowed),
         confidence_score |-> NumberType,
         legal_basis |-> NullableStringType,
         recommended_action |-> NullableStringType])

BuildLogicJsonSchema ==
    ObjectType(
        <<"contradictions", "total_contradictions_found", "risk_level",
          "analysis_notes">>,
        [contradictions |-> ArrayType(ContradictionSchema),
         total_contradictions_found |-> IntegerType,
         risk_level |-> EnumType(RiskAllowed),
         analysis_notes |-> NullableStringType])

(* the schema a strict request of the given name carries *)
SchemaOf(name) ==
    IF name = TIMELINE_SCHEMA_NAME THEN BuildJsonSchema ELSE BuildLogicJsonSchema

(***************************************************************************)
(* The fields of the domain objects of models.py: name -> optional or not. *)
(***************************************************************************)
TimelineEventFields ==
    [date |-> FALSE, description |-> FALSE, source_page |-> FALSE,
     entities |-> FALSE, category |-> FALSE, significance |-> TRUE]

TimelineResponseFields ==
    [events |-> FALSE, document_summary |-> FALSE, total_events_found |-> FALSE,
     primary_jurisdiction |-> TRUE, case_number |-> TRUE]

ContradictionFields ==
    [title |-> FALSE, contradiction_type |-> FALSE, description |-> FALSE,
     involved_event_ids |-> FALSE, severity |-> FALSE, confidence_score |-> FALSE,
     legal_basis |-> TRUE, recommended_action |-> TRUE]

LogicAnalysisResultFields ==
    [contradictions |-> FALSE, total_contradictions_found |-> FALSE,
     risk_level |-> FALSE, analysis_notes |-> TRUE]

(***************************************************************************)
(* services/pdf_parser.py.  A text is a sequence of characters.  A         *)
(* document is the empty byte string, bytes that are no PDF, or a PDF of   *)
(* 0..MaxPages pages; a page is the sequence of the raw texts of its text  *)
(* blocks (single-line here, so cleaning a block is stripping it).         *)
(***************************************************************************)
MaxPages == 2

MaxBlocks == 1

MaxChars == 8

BlockTexts == {<<" ">>, <<"x">>, <<" ", "y">>}

PdfPages == SeqsUpTo(BlockTexts, MaxBlocks)

Documents ==
    {[kind |-> "empty"], [kind |-> "corrupt"]}
        \cup {[kind |-> "pdf", pages |-> ps] : ps \in SeqsUpTo(PdfPages, MaxPages)}

IsSpace(c) == c \in {" ", "\n"}

RECURSIVE LStrip(_)
LStrip(t) == IF t # <<>> /\ IsSpace(Head(t)) THEN LStrip(Tail(t)) ELSE t

RECURSIVE RStrip(_)
RStrip(t) ==
    IF t # <<>> /\ IsSpace(t[Len(t)]) THEN RStrip(SubSeq(t, 1, Len(t) - 1)) ELSE t

(* str.strip() *)
Strip(t) == RStrip(LStrip(t))

(* sep.join(parts) *)
RECURSIVE Join(_, _)
Join(parts, sep) ==
    IF parts = <<>> THEN <<>>
    ELSE IF Len(parts) = 1 THEN parts[1]
    ELSE parts[1] \o sep \o Join(Tail(parts), sep)

(* _clean_block_text, lines 143-146 *)
CleanBlockText(t) == Strip(t)

Digit(n) == <<"0", "1", "2", "3", "4", "5", "6", "7", "8", "9">>[n + 1]

(* the page marker "[SAYFA n]" of line 126 *)
PageMarker(n) == <<"[", "S", Digit(n), "]">>

(* _extract_page_text, lines 104-126: the cleaned, non-empty blocks joined
   by a blank line, after the page marker *)
ExtractPageText(page, page_number) ==
    LET cleaned == [k \in 1..Len(page) |-> CleanBlockText(page[k])]
        text_blocks == SelectSeq(cleaned, LAMBDA b : b # <<>>)
    IN PageMarker(page_number) \o <<"\n">> \o Join(text_blocks, <<"\n", "\n">>)

(* line 60: if page_text.strip() *)
KeepsPage(page_text) == Strip(page_text) # <<>>

(* extract_text_by_page, lines 38-84 *)
ExtractTextByPage(d) ==
    IF d.kind # "pdf" THEN Raise("PDFParsingError")
    ELSE LET all == [k \in 1..Len(d.pages) |->
                        [page_number |-> k, text |-> ExtractPageText(d.pages[k], k)]]
             pages_with_text == SelectSeq(all, LAMBDA pg : KeepsPage(pg.text))
         IN IF pages_with_text = <<>> THEN Raise("PDFParsingError")
            ELSE Return(pages_with_text)

(* lines 174-177 *)
TruncationMarker == <<"\n", "\n", "[", "U", "]">>

(* build_prompt_text, lines 165-179 *)
BuildPromptTextCutAtBudget(pgs, limit) ==
    LET full_text == Join([k \in 1..Len(pgs) |-> pgs[k].text], <<"\n", "\n">>)
    IN IF Len(full_text) >= limit
       THEN SubSeq(full_text, 1, limit) \o TruncationMarker
       ELSE full_text

BuildPromptText(pgs, limit) ==
    LET full_text == Join([k \in 1..Len(pgs) |-> pgs[k].text], <<"\n", "\n">>)
    IN IF Len(full_text) > limit
       THEN SubSeq(full_text, 1, limit) \o TruncationMarker
       ELSE full_text

PdfInit ==
    /\ entry = "parse_pdf"
    /\ env_ok = TRUE
    /\ pc = "pdf_start"
    /\ clients = 0
    /\ calls = <<>>
    /\ exc = NoneVal
    /\ raw = NoneVal
    /\ extract_out = NoneVal
    /\ timeline = NoneVal
    /\ logic_out = NoneVal
    /\ result = NoneVal
    /\ context = NoneVal
    /\ doc \in Documents
    /\ max_chars \in 0..MaxChars
    /\ pages = NoneVal
    /\ prompt_text = NoneVal
    /\ reqs = NoneVal
    /\ module_state = NoneVal

pdf_rest == <<entry, env_ok, clients, calls, context, doc, max_chars, reqs,
              module_state>>

(* main._parse_pdf_to_prompt line 186; PDFParsingError is answered 422 by
   the handler of main.py lines 123-128 *)
PdfExtract ==
    /\ pc = "pdf_start"
    /\ pages' = ExtractTextByPage(doc)
    /\ IF pages'.kind = "raise"
       THEN result' = HttpError(422) /\ pc' = "done"
       ELSE UNCHANGED result /\ pc' = "pdf_pages"
    /\ UNCHANGED prompt_text
    /\ UNCHANGED analyze_vars
    /\ UNCHANGED pdf_rest

(* main._parse_pdf_to_prompt line 189 *)
PdfBuildPrompt ==
    /\ pc = "pdf_pages"
    /\ prompt_text' = Return(BuildPromptText(pages.value, max_chars))
    /\ pc' = "pdf_prompt"
    /\ UNCHANGED <<pages, result>>
    /\ UNCHANGED analyze_vars
    /\ UNCHANGED pdf_rest

PdfNext ==
    \/ PdfExtract
    \/ PdfBuildPrompt

PdfSpec == PdfInit /\ [][PdfNext]_vars

(***************************************************************************)
(* Two analyze requests served by one event loop.  A coroutine runs until  *)
(* its next await of a completion call, so a step of a request is the code *)
(* between two awaits.  Each request has its own locals (reqs[r]); what    *)
(* the provider will answer to it is fixed when the request arrives:       *)
(* script_e and script_l hold the answers to the requests of the two       *)
(* passes, a second one only after a rejected format.  module_state is     *)
(* what the service modules hold at module level besides constants.        *)
(***************************************************************************)
Requests == {1, 2}

Answer(body) == [t |-> "body", body |-> body]

Failure(err) == [t |-> "error", err |-> err]

FormatRejected ==
    Failure([kind |-> "OpenAIError", cls |-> "BadRequestError",
             msg |-> <<"response_format">>])

QuotaExceeded ==
    Failure([kind |-> "OpenAIError", cls |-> "RateLimitError", msg |-> <<"quota">>])

ConcTimelineBody(ev) ==
    [kind |-> "object", events |-> ev, document_summary |-> "summary",
     total_events_found |-> 0,
     primary_jurisdiction |-> "null", case_number |-> "null"]

ConcExtractAnswers ==
    {Answer([kind |-> "malformed"]),
     Answer(ConcTimelineBody(<<RawEvent("a", 1, "Mahkeme Islemi")>>)),
     Answer(ConcTimelineBody(<<RawEvent("b", 2, "Serbest"),
                               RawEvent("a", 1, "Mahkeme Islemi")>>))}

ConcLogicBody(items) ==
    [kind |-> "object", contradictions |-> ListOf(items),
     total_contradictions_found |-> 0, risk_level |-> "HIGH",
     analysis_notes |-> "notes"]

ConcLogicAnswers ==
    {Answer([kind |-> "array"]),
     Answer(ConcLogicBody(<<>>)),
     Answer(ConcLogicBody(
         <<RawItem(ListOf(<<1, 0, MaxEvents + 1>>), "FACTUAL_ERROR", "MEDIUM", 5)>>))}

(* the answers to one pass: to its only request, or to the strict request
   and to the relaxed one *)
Scripts(answers) ==
    {<<x>> : x \in answers \cup {QuotaExceeded}}
        \cup {<<FormatRejected, x>> : x \in answers \cup {QuotaExceeded}}

Arrived(se, sl) ==
    [pc |-> "start", script_e |-> se, script_l |-> sl, clients |-> <<>>,
     calls |-> <<>>, timeline |-> NoneVal, result |-> NoneVal,
     overlapped |-> FALSE]

ConcInit ==
    /\ entry = "analyze_deep"
    /\ env_ok = TRUE
    /\ pc = "serving"
    /\ clients = 0
    /\ calls = <<>>
    /\ exc = NoneVal
    /\ raw = NoneVal
    /\ extract_out = NoneVal
    /\ timeline = NoneVal
    /\ logic_out = NoneVal
    /\ result = NoneVal
    /\ context = NoneVal
    /\ doc = NoneVal
    /\ max_chars = 0
    /\ pages = NoneVal
    /\ prompt_text = NoneVal
    /\ reqs \in [Requests ->
                    {Arrived(se, sl) : se \in Scripts(ConcExtractAnswers),
                                       sl \in Scripts(ConcLogicAnswers)}]
    /\ module_state = [client |-> NoneVal]

conc_rest == <<entry, env_ok, pc, clients, calls, result, context, doc, max_chars,
               pages, prompt_text>>

(* _get_openai_client: a new client object of the calling request *)
NewClient(r, l) == [owner |-> r, n |-> Len(l.clients) + 1]

InFlight(l) == l.pc \notin {"start", "done"}

(* the request r takes a step while another request is between two awaits *)
Overlaps(r) == \E o \in Requests \ {r} : InFlight(reqs[o])

ConcCall(pass, client, format) ==
    [pass |-> pass, client |-> client, response_format |-> format]

(* analyze_document_deep step 2 up to the first await of extract_timeline *)
ConcStartCachedClient(r) ==
    LET l == reqs[r]
        c == IF module_state.client = NoneVal THEN NewClient(r, l)
             ELSE module_state.client
    IN /\ l.pc = "start"
       /\ module_state' = [client |-> c]
       /\ reqs' = [reqs EXCEPT ![r] =
              [l EXCEPT !.pc = "extract_await1",
                        !.clients = Append(@, c),
                        !.calls = Append(@, ConcCall("extract", c,
                                      StructuredResponseFormat(TIMELINE_SCHEMA_NAME))),
                        !.overlapped = @ \/ Overlaps(r)]]
       /\ UNCHANGED analyze_vars
       /\ UNCHANGED conc_rest

ConcStart(r) ==
    LET l == reqs[r]
        c == NewClient(r, l)
    IN /\ l.pc = "start"
       /\ UNCHANGED module_state
       /\ reqs' = [reqs EXCEPT ![r] =
              [l EXCEPT !.pc = "extract_await1",
                        !.clients = Append(@, c),
                        !.calls = Append(@, ConcCall("extract", c,
                                      StructuredResponseFormat(TIMELINE_SCHEMA_NAME))),
                        !.overlapped = @ \/ Overlaps(r)]]
       /\ UNCHANGED analyze_vars
       /\ UNCHANGED conc_rest

(* from the end of extract_timeline to the first await of                  *)
(* detect_contradictions, or to the answer (main.py lines 334-384)         *)
AfterExtract(r, l, out) ==
    IF out.kind = "raise"
    THEN [l EXCEPT !.pc = "done",
                   !.result = HttpError(IF out.exc = "ValueError" THEN 422 ELSE 500)]
    ELSE IF NoEvents(out.value)
    THEN [l EXCEPT !.pc = "done",
                   !.timeline = out.value,
                   !.result = Response(FromPhases(out.value, EmptyTimelineResult))]
    ELSE LET c == NewClient(r, l)
         IN [l EXCEPT !.pc = "logic_await1",
                      !.timeline = out.value,
                      !.clients = Append(@, c),
                      !.calls = Append(@, ConcCall("logic", c,
                                    StructuredResponseFormat(LOGIC_SCHEMA_NAME)))]

(* from the end of detect_contradictions to the answer (lines 351-394) *)
AfterLogic(l, out) ==
    [l EXCEPT !.pc = "done",
              !.result =
                  IF out.kind = "raise" /\ AnswersUnprocessable(out.exc)
                  THEN HttpError(422)
                  ELSE Response(FromPhases(l.timeline,
                           IF out.kind = "raise" THEN DegradedResult ELSE out.value))]

(* an await of the extraction pass is resumed with its answer *)
ConcExtractResumes(r) ==
    LET l == reqs[r]
        x == IF l.pc = "extract_await1" THEN l.script_e[1] ELSE l.script_e[2]
        next == IF x.t = "body" THEN AfterExtract(r, l, ExtractFinish(x.body))
                ELSE IF /\ l.pc = "extract_await1"
                        /\ x.err.kind = "OpenAIError"
                        /\ ShouldFallbackToJsonObject(x.err.msg)
                THEN [l EXCEPT !.pc = "extract_await2",
                               !.calls = Append(@, ConcCall("extract",
                                             l.clients[Len(l.clients)],
                                             JsonObjectFormat))]
                ELSE AfterExtract(r, l, Raise(x.err.kind))
    IN /\ l.pc \in {"extract_await1", "extract_await2"}
       /\ reqs' = [reqs EXCEPT ![r] = [next EXCEPT !.overlapped = @ \/ Overlaps(r)]]
       /\ UNCHANGED module_state
       /\ UNCHANGED analyze_vars
       /\ UNCHANGED conc_rest

(* an await of the cross-reference pass is resumed with its answer *)
ConcLogicResumes(r) ==
    LET l == reqs[r]
        x == IF l.pc = "logic_await1" THEN l.script_l[1] ELSE l.script_l[2]
        next == IF x.t = "body" THEN AfterLogic(l, LogicFinish(x.body, l.timeline))
                ELSE IF /\ l.pc = "logic_await1"
                        /\ x.err.kind = "OpenAIError"
                        /\ ShouldFallbackToJsonObject(x.err.msg)
                THEN [l EXCEPT !.pc = "logic_await2",
                               !.calls = Append(@, ConcCall("logic",
                                             l.clients[Len(l.clients)],
                                             JsonObjectFormat))]
                ELSE AfterLogic(l, Raise(x.err.kind))
    IN /\ l.pc \in {"logic_await1", "logic_await2"}
       /\ reqs' = [reqs EXCEPT ![r] = [next EXCEPT !.overlapped = @ \/ Overlaps(r)]]
       /\ UNCHANGED module_state
       /\ UNCHANGED analyze_vars
       /\ UNCHANGED conc_rest

ConcNext ==
    \/ \E r \in Requests : ConcStart(r)
    \/ \E r \in Requests : ConcExtractResumes(r)
    \/ \E r \in Requests : ConcLogicResumes(r)

ConcSpec == ConcInit /\ [][ConcNext]_vars

(***************************************************************************)
(* Properties.                                                             *)
(***************************************************************************)
Returned(out) == out.kind = "return"

StrictlyAscending(s) == \A k \in 1..(Len(s) - 1) : s[k] < s[k + 1]

(* the index lists of the body are lists of integers, or absent *)
IndexListsAreIntegers(body) ==
    /\ body.kind = "object"
    /\ body.contradictions.t = "list"
    /\ \A k \in 1..Len(body.contradictions.v) :
          body.contradictions.v[k].involved_event_ids.t \in {"list", "missing"}

(* every field other than the index lists is inside its domain *)
OtherFieldsInDomain(body) ==
    /\ \A k \in 1..Len(body.contradictions.v) :
          LET c == body.contradictions.v[k]
          IN /\ c.contradiction_type \in ContradictionTypes
             /\ c.severity \in {"HIGH", "MEDIUM", "LOW"}
             /\ c.confidence_score \in 0..10
    /\ body.total_contradictions_found >= 0
    /\ body.risk_level \in {"HIGH", "MEDIUM", "LOW", "NONE"}

(* C1: every contradiction of a result that detect_contradictions returns
   on a timeline of n >= 1 events has a non-empty, strictly ascending
   involved_event_ids whose values all lie in 0..n-1. *)
C1_IdsWellFormed ==
    (timeline # NoneVal /\ Returned(logic_out) /\ Len(timeline.events) >= 1) =>
        \A k \in 1..Len(logic_out.value.contradictions) :
            LET ids == logic_out.value.contradictions[k].involved_event_ids
            IN /\ Len(ids) >= 1
               /\ \A j \in 1..Len(ids) : 0 <= ids[j] /\ ids[j] < Len(timeline.events)
               /\ StrictlyAscending(ids)

C1_Witness ==
    /\ pc = "logic_done"
    /\ Returned(logic_out)
    /\ raw.kind = "object"
    /\ raw.contradictions.t = "list"
    /\ Len(raw.contradictions.v) = 1
    /\ raw.contradictions.v[1].involved_event_ids = ListOf(<<1, 0>>)
    /\ logic_out.value.contradictions[1].involved_event_ids = <<0, 1>>

(* C2: when the body's index lists hold integers and its other fields are
   valid, the pass returns; the result has as many contradictions as the
   body; each one's involved_event_ids is the ascending duplicate-free list
   of the original indices inside 0..n-1, or <<0>> when there is none. *)
C2_IndexRepair ==
    (pc = "logic_done" /\ raw # NoneVal /\ IndexListsAreIntegers(raw)
        /\ OtherFieldsInDomain(raw)) =>
        /\ Returned(logic_out)
        /\ Len(logic_out.value.contradictions) = Len(raw.contradictions.v)
        /\ \A k \in 1..Len(raw.contradictions.v) :
              LET orig == raw.contradictions.v[k].involved_event_ids.v
                  kept == {i \in Range(orig) : 0 <= i /\ i < Len(timeline.events)}
                  ids == logic_out.value.contradictions[k].involved_event_ids
              IN IF kept # {}
                 THEN StrictlyAscending(ids) /\ Range(ids) = kept
                 ELSE ids = <<0>>

C2_Witness ==
    /\ pc = "logic_done"
    /\ Returned(logic_out)
    /\ raw.kind = "object"
    /\ raw.contradictions.t = "list"
    /\ Len(raw.contradictions.v) = 1
    /\ raw.contradictions.v[1].involved_event_ids = ListOf(<<0, MaxEvents + 1>>)
    /\ logic_out.value.contradictions[1].involved_event_ids = <<0>>

(* C3: every TimelineResponse the extraction pass returns has
   total_events_found equal to the length of its events list. *)
C3_EventCount ==
    Returned(extract_out) =>
        extract_out.value.total_events_found = Len(extract_out.value.events)

C3_Witness ==
    /\ pc = "extract_done"
    /\ Returned(extract_out)
    /\ raw.kind = "object"
    /\ Len(raw.events) = 1
    /\ raw.total_events_found = MaxEvents
    /\ extract_out.value.events = raw.events

(* C4: every LogicAnalysisResult that detect_contradictions returns, and
   every AnalysisResult the route answers (normal path, empty timeline,
   degraded mode), has total_contradictions_found equal to the length of
   its contradictions list. *)
C4_ContradictionCount ==
    /\ Returned(logic_out) =>
          logic_out.value.total_contradictions_found
              = Len(logic_out.value.contradictions)
    /\ result.kind = "response" =>
          result.body.total_contradictions_found = Len(result.body.contradictions)

C4_Witness ==
    /\ pc = "logic_done"
    /\ entry = "analyze_deep"
    /\ Returned(logic_out)
    /\ raw.kind = "object"
    /\ raw.contradictions.t = "list"
    /\ Len(raw.contradictions.v) = 1
    /\ raw.total_contradictions_found = MaxContr
    /\ logic_out.value.total_contradictions_found = 1

(* C5: in every LogicAnalysisResult the cross-reference pass returns,
   risk_level is "NONE" exactly when contradictions is empty and "HIGH"
   exactly when some contradiction has severity HIGH. *)
C5_RiskRollup ==
    Returned(logic_out) =>
        LET r == logic_out.value
        IN /\ (r.risk_level = "NONE") <=> (r.contradictions = <<>>)
           /\ (r.risk_level = "HIGH") <=>
                 (\E k \in 1..Len(r.contradictions) :
                     r.contradictions[k].severity = "HIGH")

CallsOfIn(cs, p) == SelectSeq(cs, LAMBDA c : c.pass = p)

CallsOf(p) == CallsOfIn(calls, p)

(* the result the route answers when the cross-reference pass failed and
   the request is not failed: the extracted timeline, no contradictions *)
IsDegradedAnswer ==
    /\ result.kind = "response"
    /\ result.body.events = extract_out.value.events
    /\ result.body.contradictions = <<>>
    /\ result.body.total_contradictions_found = 0
    /\ result.body.risk_level = "NONE"
    /\ result.body.analysis_notes \notin {"", "null"}

(* C6: when the extraction succeeded and the cross-reference pass raised a
   provider error, the route answers an AnalysisResult with the extracted
   events in the same order, no contradictions, total 0, risk NONE and a
   non-empty note. *)
C6_DegradedOnProviderError ==
    (entry = "analyze_deep" /\ pc = "done" /\ Returned(extract_out)
        /\ logic_out = Raise("OpenAIError")) => IsDegradedAnswer

C6_Witness ==
    /\ entry = "analyze_deep"
    /\ pc = "done"
    /\ Returned(extract_out)
    /\ Len(extract_out.value.events) = MaxEvents
    /\ logic_out = Raise("OpenAIError")
    /\ Len(CallsOf("logic")) = 1
    /\ IsDegradedAnswer

(* C7: when the extraction succeeded and the cross-reference pass raised a
   validation error (ValueError), the route answers the degraded result
   instead of failing the request. *)
C7_DegradedOnValidationError ==
    (entry = "analyze_deep" /\ pc = "done" /\ Returned(extract_out)
        /\ logic_out = Raise("ValueError")) => IsDegradedAnswer

(* C8: cross-referencing a timeline without events constructs no client,
   issues no completion call, and returns no contradictions, total 0, risk
   NONE and a note. *)
C8_EmptyTimeline ==
    (timeline # NoneVal /\ timeline.events = <<>>) =>
        /\ CallsOf("logic") = <<>>
        /\ clients = IF entry = "detect_contradictions" THEN 0 ELSE 1
        /\ pc \in {"logic_done", "done"} =>
              /\ Returned(logic_out)
              /\ logic_out.value.contradictions = <<>>
              /\ logic_out.value.total_contradictions_found = 0
              /\ logic_out.value.risk_level = "NONE"
              /\ logic_out.value.analysis_notes \notin {"", "null"}

C8_Witness ==
    /\ entry = "detect_contradictions"
    /\ ~env_ok
    /\ timeline.events = <<>>
    /\ pc = "logic_done"
    /\ Returned(logic_out)
    /\ calls = <<>>

Passes == {"extract", "logic"}

PcStart(p) == IF p = "extract" THEN "extract_start" ELSE "logic_start"

PcAwait1(p) == IF p = "extract" THEN "extract_await1" ELSE "logic_await1"

PcExcept(p) == IF p = "extract" THEN "extract_except" ELSE "logic_except"

PcAwait2(p) == IF p = "extract" THEN "extract_await2" ELSE "logic_await2"

PcDone(p) == IF p = "extract" THEN "extract_done" ELSE "logic_done"

OutOf(p) == IF p = "extract" THEN extract_out ELSE logic_out

(* the lower-cased message holds one of the five markers *)
MessageHasMarker(msg) ==
    \E i \in 1..Len(msg) : \E j \in i..Len(msg) :
        SubSeq(Lower(msg), i, j) \in
            {<<"json_schema">>, <<"response_format">>, <<"unsupported">>,
             <<"not", "supported">>, <<"invalid", "parameter">>}

RejectedForFormat(e) == e.kind = "OpenAIError" /\ MessageHasMarker(e.msg)

C9_Step(p) ==
    LET before == Len(CallsOfIn(calls, p))
        after == Len(CallsOfIn(calls', p))
    IN /\ after <= 2
       /\ pc = PcStart(p) => before = 0 /\ after <= 1
       /\ pc = PcAwait1(p) => before = 1 /\ after = 1
       /\ pc = PcExcept(p) =>
             IF RejectedForFormat(exc)
             THEN after = 2 /\ pc' = PcAwait2(p)
             ELSE after = 1 /\ pc' = PcDone(p) /\ OutOf(p)' = Raise(exc.kind)
       /\ pc = PcAwait2(p) =>
             /\ after = 2
             /\ pc' = PcDone(p)
             /\ raw' = NoneVal => OutOf(p)'.kind = "raise"
       /\ pc \notin {PcStart(p), PcAwait1(p), PcExcept(p), PcAwait2(p)} =>
             after = before

(* C9: a pass issues one completion call; a second one follows exactly when
   the first raised an OpenAIError whose message holds a fallback marker;
   no step issues a third; a pass that is over issues none; a failure of
   the second call ends the pass with an exception. *)
C9_CallCount == [][C9_Step("extract") /\ C9_Step("logic")]_vars

C9_Witness ==
    /\ pc = "logic_done"
    /\ Len(CallsOf("logic")) = 2
    /\ raw = NoneVal
    /\ logic_out = Raise("OpenAIError")

C10_Formats ==
    \A p \in Passes :
        LET cs == CallsOf(p)
        IN /\ cs # <<>> =>
                 cs[1].response_format =
                     [type |-> "json_schema", strict |-> TRUE,
                      name |-> IF p = "extract" THEN "timeline_response"
                               ELSE "logic_analysis_result"]
           /\ \A k \in 1..Len(cs) :
                 cs[k].response_format.type = "json_object" => k = 2

C10_Step ==
    (calls' # calls /\ calls'[Len(calls')].response_format.type = "json_object") =>
        /\ pc \in {"extract_except", "logic_except"}
        /\ Len(calls') = Len(calls) + 1
        /\ RejectedForFormat(exc)

(* C10: the first request of a pass carries the strict json_schema format
   with the pass's schema name; a json_object request is only ever the
   second request of its pass, and it is issued only by the except clause
   handling an OpenAIError whose lower-cased message holds a marker. *)
C10_StrictFirst == []C10_Formats /\ [][C10_Step]_vars

C10_Witness ==
    /\ pc = "extract_await2"
    /\ Len(calls) = 2
    /\ calls[1].response_format.type = "json_schema"
    /\ calls[2].response_format.type = "json_object"

(***************************************************************************)
(* C11: when the first completion call of a pass fails for a reason of the *)
(* transport or the account (authentication, quota or rate limit, network) *)
(* and not because the request format was rejected, the handler issues no  *)
(* second call and the pass ends raising the provider error.               *)
(***************************************************************************)
TransportClasses == {"PermissionDeniedError", "RateLimitError", "APIConnectionError"}

C11_Step(p) ==
    (/\ pc = PcExcept(p)
     /\ exc.kind = "OpenAIError"
     /\ exc.cls \in TransportClasses)
        => /\ calls' = calls
           /\ pc' = PcDone(p)
           /\ OutOf(p)' = Raise("OpenAIError")

C11_NoRelaxedRetryOnTransportFailure ==
    [][C11_Step("extract") /\ C11_Step("logic")]_vars

(***************************************************************************)
(* C12: a failed validation ends the pass.  The step in which a completion *)
(* call returns its body, to the strict request or to the relaxed one,     *)
(* issues no call and finishes the pass; a body that is empty or is not    *)
(* JSON finishes it raising; and a pass that has raised issues no call     *)
(* afterwards.                                                             *)
(***************************************************************************)
BodyReturned(p) ==
    /\ pc \in {PcAwait1(p), PcAwait2(p)}
    /\ raw = NoneVal
    /\ raw' # NoneVal

C12_Step(p) ==
    /\ BodyReturned(p) =>
          /\ calls' = calls
          /\ clients' = clients
          /\ pc' = PcDone(p)
          /\ OutOf(p)' # NoneVal
          /\ raw'.kind \in {"empty", "malformed", "array"} => OutOf(p)'.kind = "raise"
    /\ OutOf(p).kind = "raise" => calls' = calls /\ OutOf(p)' = OutOf(p)

C12_ValidationFailureTerminal ==
    [][C12_Step("extract") /\ C12_Step("logic")]_vars

C12_Witness ==
    /\ pc = "extract_done"
    /\ Len(CallsOf("extract")) = 2
    /\ raw.kind = "malformed"
    /\ extract_out = Raise("ValueError")

(***************************************************************************)
(* C13: in the extraction pass every bad body (empty, not JSON, JSON that  *)
(* is not an object, an object with an event that fails TimelineEvent      *)
(* validation) ends the pass with ValueError; whenever a body was received *)
(* the pass raises nothing but ValueError, so the provider error is raised *)
(* only when no body was received; and a pass that raised delivered no     *)
(* TimelineResponse.                                                       *)
(***************************************************************************)
BadExtractBody(body) ==
    \/ body.kind \in {"empty", "malformed", "array"}
    \/ /\ body.kind = "object"
       /\ \E k \in 1..Len(body.events) : body.events[k].source_page < 1

C13_ExtractBadBodyIsValueError ==
    pc = "extract_done" =>
        /\ (raw # NoneVal /\ BadExtractBody(raw)) => extract_out = Raise("ValueError")
        /\ (raw # NoneVal /\ extract_out.kind = "raise") => extract_out.exc = "ValueError"
        /\ extract_out = Raise("OpenAIError") => raw = NoneVal
        /\ extract_out.kind = "raise" => timeline = NoneVal

C13_Witness ==
    /\ pc = "extract_done"
    /\ raw.kind = "array"
    /\ extract_out = Raise("ValueError")

(***************************************************************************)
(* C14: in the cross-reference pass every failure that follows a received  *)
(* body (empty, not JSON, not an object, contradictions null, an index     *)
(* list that is null or holds non-integers, a failed LogicAnalysisResult   *)
(* validation) is a ValueError and never an exception of another type.     *)
(***************************************************************************)
C14_LogicBadBodyIsValueError ==
    (pc = "logic_done" /\ raw # NoneVal /\ logic_out.kind = "raise")
        => logic_out.exc = "ValueError"

(***************************************************************************)
(* C15: in one analyze request the passes are sequential.  A               *)
(* cross-reference call exists only when the extraction pass has returned  *)
(* a TimelineResponse, which is the timeline the second pass works on; no  *)
(* extraction call follows a cross-reference call; and when the extraction *)
(* pass raised, no cross-reference call is issued, the second pass is      *)
(* never entered and the request ends with an HTTP error, no               *)
(* AnalysisResult.                                                         *)
(***************************************************************************)
ExtractBeforeLogic ==
    \A i, j \in 1..Len(calls) :
        (i < j /\ calls[i].pass = "logic") => calls[j].pass = "logic"

C15_PassesSequential ==
    entry = "analyze_deep" =>
        /\ CallsOf("logic") # <<>> =>
              /\ extract_out.kind = "return"
              /\ timeline = extract_out.value
        /\ ExtractBeforeLogic
        /\ extract_out.kind = "raise" =>
              /\ CallsOf("logic") = <<>>
              /\ logic_out = NoneVal
              /\ pc \in {"extract_done", "done"}
              /\ result.kind # "response"
              /\ pc = "done" => result.kind = "http_error"

C15_Witness ==
    /\ entry = "analyze_deep"
    /\ pc = "done"
    /\ extract_out = Raise("OpenAIError")
    /\ result = HttpError(500)
    /\ CallsOf("logic") = <<>>

(***************************************************************************)
(* C16: every contradiction delivered, by detect_contradictions or inside  *)
(* the merged answer, has its severity among HIGH, MEDIUM, LOW, its type   *)
(* among the four of the enumeration and its confidence within [0, 1]      *)
(* (0..10 tenths); and a payload in which one contradiction breaks one of  *)
(* these makes the whole pass raise the validation error, the other        *)
(* contradictions of the payload are not delivered.                        *)
(***************************************************************************)
InClosedDomains(c) ==
    /\ c.severity \in {"HIGH", "MEDIUM", "LOW"}
    /\ c.contradiction_type \in
          {"FACTUAL_ERROR", "WITNESS_CONFLICT", "TIMELINE_IMPOSSIBILITY", "MISSING_INFO"}
    /\ c.confidence_score \in 0..10

AllInClosedDomains(cs) == \A k \in 1..Len(cs) : InClosedDomains(cs[k])

C16_ClosedDomains ==
    /\ Returned(logic_out) => AllInClosedDomains(logic_out.value.contradictions)
    /\ result.kind = "response" => AllInClosedDomains(result.body.contradictions)
    /\ (/\ pc = "logic_done"
        /\ raw # NoneVal
        /\ raw.kind = "object"
        /\ raw.contradictions.t = "list"
        /\ ~AllInClosedDomains(raw.contradictions.v))
           => /\ logic_out.kind = "raise"
              /\ IndexListsAreIntegers(raw) => logic_out = Raise("ValueError")

C16_Witness ==
    /\ pc = "logic_done"
    /\ raw # NoneVal
    /\ raw.kind = "object"
    /\ raw.contradictions.t = "list"
    /\ Len(raw.contradictions.v) = 2
    /\ InClosedDomains(raw.contradictions.v[1])
    /\ raw.contradictions.v[2].severity = "CRITICAL"
    /\ logic_out = Raise("ValueError")

(***************************************************************************)
(* C17: every event of a TimelineResponse the extraction pass returns has  *)
(* a category among the ten legal labels, whether the body answered the    *)
(* strict request or the relaxed json_object request.                      *)
(***************************************************************************)
C17_CategoryInLabels ==
    Returned(extract_out) =>
        \A k \in 1..Len(extract_out.value.events) :
            extract_out.value.events[k].category \in LegalCategories

(***************************************************************************)
(* C18: a cross-reference payload in which some contradiction carries an   *)
(* empty index list makes the pass raise the validation error; no result   *)
(* is returned for it.                                                     *)
(***************************************************************************)
HasEmptyIndexList(body) ==
    /\ body.kind = "object"
    /\ body.contradictions.t = "list"
    /\ \E k \in 1..Len(body.contradictions.v) :
          body.contradictions.v[k].involved_event_ids = ListOf(<<>>)

C18_EmptyIndexListRejected ==
    (pc = "logic_done" /\ raw # NoneVal /\ HasEmptyIndexList(raw))
        => logic_out = Raise("ValueError")

(***************************************************************************)
(* C19: an extraction payload that is valid but for its declared           *)
(* total_events_found, whatever integer that is, a negative one included,  *)
(* is accepted and returned with the total set to the number of events.    *)
(***************************************************************************)
ValidButForTotal(body) ==
    /\ body.kind = "object"
    /\ \A k \in 1..Len(body.events) : body.events[k].source_page >= 1
    /\ body.total_events_found # Len(body.events)

C19_DeclaredTotalNeverRejects ==
    (pc = "extract_done" /\ raw # NoneVal /\ ValidButForTotal(raw))
        => /\ Returned(extract_out)
           /\ extract_out.value.events = raw.events
           /\ extract_out.value.total_events_found = Len(raw.events)

(***************************************************************************)
(* C20: from_phases is a field union.  In the merged answer each of the    *)
(* five timeline fields (the events in their order) and each of the four   *)
(* logic fields (the contradictions in their order) equals the field of    *)
(* the input it comes from, and the answer has no other field; the step    *)
(* that merges leaves both inputs as they were; and merging the same       *)
(* inputs once more gives the same answer.                                 *)
(***************************************************************************)
MergedLogicInput == IF logic_out.kind = "raise" THEN DegradedResult ELSE logic_out.value

TimelineFields ==
    {"events", "document_summary", "total_events_found", "primary_jurisdiction",
     "case_number"}

LogicFields ==
    {"contradictions", "total_contradictions_found", "risk_level", "analysis_notes"}

C20_Fields ==
    result.kind = "response" =>
        /\ DOMAIN result.body = TimelineFields \cup LogicFields
        /\ \A f \in TimelineFields : result.body[f] = timeline[f]
        /\ \A f \in LogicFields : result.body[f] = MergedLogicInput[f]
        /\ FromPhases(timeline, MergedLogicInput) = result.body

C20_Step ==
    (pc = "logic_done" /\ result'.kind = "response")
        => timeline' = timeline /\ logic_out' = logic_out

C20_FieldUnion == []C20_Fields /\ [][C20_Step]_vars

C20_Witness ==
    /\ result.kind = "response"
    /\ Returned(logic_out)
    /\ Len(result.body.events) = 2
    /\ result.body.events[1] # result.body.events[2]
    /\ Len(result.body.contradictions) = 2
    /\ result.body.contradictions[1] # result.body.contradictions[2]
    /\ result.body.risk_level = "HIGH"
    /\ result.body.contradictions = logic_out.value.contradictions

(***************************************************************************)
(* C21: a chat request whose context has no events entry, a null one or an *)
(* empty list is answered 422 and no client is built and no completion     *)
(* call is issued for it; a completion call is issued only for a context   *)
(* whose events entry is a list of at least one event.                     *)
(***************************************************************************)
EventsEmptyOrAbsent(ctx) ==
    \/ ctx.events.t \in {"missing", "null"}
    \/ ctx.events.t = "list" /\ Len(ctx.events.v) = 0

C21_EmptyContextRejected ==
    /\ EventsEmptyOrAbsent(context) =>
          /\ calls = <<>>
          /\ clients = 0
          /\ pc \in {"chat_start", "done"}
          /\ pc = "done" => result = HttpError(422)
    /\ calls # <<>> => (context.events.t = "list" /\ Len(context.events.v) >= 1)

C21_Witness ==
    /\ pc = "done"
    /\ context.events = [t |-> "list", v |-> <<>>]
    /\ context.contradictions.t = "list"
    /\ result = HttpError(422)
    /\ calls = <<>>

(***************************************************************************)
(* C22: the grounding block sent with the completion call shows, for every *)
(* contradiction of the context, the value of its contradiction_type       *)
(* field.                                                                  *)
(***************************************************************************)
C22_BlockShowsContradictionType ==
    (pc = "chat_await" /\ context.contradictions.t = "list") =>
        LET block == calls[Len(calls)].system_context
        IN /\ Len(block.contradictions) = Len(context.contradictions.v)
           /\ \A j \in 1..Len(context.contradictions.v) :
                 block.contradictions[j].type =
                     context.contradictions.v[j].contradiction_type

(***************************************************************************)
(* C23: the grounding block numbers from 1.  The event at 0-based position *)
(* i is labelled i + 1, the contradiction at position j is labelled j + 1, *)
(* and an index k of involved_event_ids is cited as k + 1, which is the    *)
(* label of the event at position k when the list has one.                 *)
(***************************************************************************)
C23_CitationNumbering ==
    pc = "chat_await" =>
        LET block == calls[Len(calls)].system_context
            events == context.events.v
            contras == context.contradictions.v
        IN /\ Len(block.events) = Len(events)
           /\ \A p \in 1..Len(events) :
                 /\ block.events[p].label = (p - 1) + 1
                 /\ block.events[p].description = events[p].description
           /\ Len(block.contradictions) = Len(contras)
           /\ \A q \in 1..Len(contras) :
                 LET ids == contras[q].involved_event_ids
                     refs == block.contradictions[q].refs
                 IN /\ block.contradictions[q].label = (q - 1) + 1
                    /\ Len(refs) = Len(ids)
                    /\ \A r \in 1..Len(ids) :
                          /\ refs[r] = ids[r] + 1
                          /\ ids[r] < Len(events) =>
                                /\ block.events[ids[r] + 1].label = refs[r]
                                /\ block.events[ids[r] + 1].description =
                                       events[ids[r] + 1].description

C23_Witness ==
    /\ pc = "chat_await"
    /\ Len(context.events.v) = 2
    /\ context.events.v[1] # context.events.v[2]
    /\ Len(context.contradictions.v) = 2
    /\ context.contradictions.v[2].involved_event_ids = <<0, 1>>
    /\ calls[1].system_context.contradictions[2].refs = <<1, 2>>
    /\ calls[1].system_context.contradictions[2].label = 2

(***************************************************************************)
(* C24: the schema of every strict request that was issued has, at each of *)
(* its object levels, additionalProperties false and a required list that  *)
(* names each declared property once and nothing else; the declared        *)
(* properties are the fields of the mirrored domain object; an optional    *)
(* field is typed string-or-null; and category, contradiction_type,        *)
(* severity and risk_level carry their fixed lists of values.              *)
(***************************************************************************)
NoRepeats(seq) == \A a, b \in 1..Len(seq) : seq[a] = seq[b] => a = b

(* an object level of a schema mirrors the fields of a domain object *)
LevelMirrors(level, fields) ==
    /\ level.type = {"object"}
    /\ level.additionalProperties = FALSE
    /\ NoRepeats(level.required)
    /\ Range(level.required) = DOMAIN level.properties
    /\ DOMAIN level.properties = DOMAIN fields
    /\ \A f \in DOMAIN fields :
          fields[f] => level.properties[f].type = {"string", "null"}

HasEnum(property, values) ==
    /\ "enum" \in DOMAIN property
    /\ property.enum = values

StrictSchemaWellFormed(name) ==
    LET schema == SchemaOf(name)
    IN IF name = "timeline_response"
       THEN /\ LevelMirrors(schema, TimelineResponseFields)
            /\ LevelMirrors(schema.properties.events.items, TimelineEventFields)
            /\ HasEnum(schema.properties.events.items.properties.category,
                       {"Mahkeme Islemi", "Tanik Ifadesi", "Olay Ani",
                        "Sozlesme / Anlasma", "Dilekce / Basvuru", "Karar / Hukum",
                        "Tebligat / Bildirim", "Idari Islem", "Icra Takibi", "Diger"})
       ELSE /\ LevelMirrors(schema, LogicAnalysisResultFields)
            /\ LevelMirrors(schema.properties.contradictions.items,
                            ContradictionFields)
            /\ HasEnum(schema.properties.contradictions.items.properties
                           .contradiction_type,
                       {"FACTUAL_ERROR", "WITNESS_CONFLICT",
                        "TIMELINE_IMPOSSIBILITY", "MISSING_INFO"})
            /\ HasEnum(schema.properties.contradictions.items.properties.severity,
                       {"HIGH", "MEDIUM", "LOW"})
            /\ HasEnum(schema.properties.risk_level,
                       {"HIGH", "MEDIUM", "LOW", "NONE"})

C24_StrictSchemas ==
    \A k \in 1..Len(calls) :
        calls[k].response_format.type = "json_schema"
            => StrictSchemaWellFormed(calls[k].response_format.name)

C24_Witness ==
    /\ Len(calls) = 2
    /\ calls[1].response_format.type = "json_schema"
    /\ calls[2].response_format.type = "json_schema"
    /\ calls[1].response_format.name = "timeline_response"
    /\ calls[2].response_format.name = "logic_analysis_result"

(***************************************************************************)
(* C25: event positions are stable through an analyze request.  The        *)
(* timeline the second pass works on is the extracted one and no step      *)
(* changes it; every cross-reference request shows the events in list      *)
(* order with the ids 0..n-1; the events of the answer are the extracted   *)
(* list in the same order; and every index of a delivered contradiction    *)
(* addresses an element of the answer's events.                            *)
(***************************************************************************)
C25_Positions ==
    entry = "analyze_deep" =>
        /\ timeline # NoneVal => timeline = extract_out.value
        /\ \A c \in 1..Len(calls) :
              calls[c].pass = "logic" =>
                  LET shown == calls[c].events_json
                      events == extract_out.value.events
                  IN /\ Len(shown) = Len(events)
                     /\ \A k \in 1..Len(events) :
                           /\ shown[k].id = k - 1
                           /\ shown[k].description = events[k].description
        /\ result.kind = "response" =>
              /\ result.body.events = extract_out.value.events
              /\ \A j \in 1..Len(result.body.contradictions) :
                    \A r \in 1..Len(result.body.contradictions[j].involved_event_ids) :
                        LET id == result.body.contradictions[j].involved_event_ids[r]
                        IN id >= 0 /\ id < Len(result.body.events)

C25_Step == timeline # NoneVal => timeline' = timeline

C25_PositionsStable == []C25_Positions /\ [][C25_Step]_vars

C25_Witness ==
    /\ entry = "analyze_deep"
    /\ result.kind = "response"
    /\ Len(result.body.events) = 2
    /\ result.body.events[1] # result.body.events[2]
    /\ Len(result.body.contradictions) >= 1
    /\ result.body.contradictions[1].involved_event_ids = <<0, 1>>
    /\ Len(CallsOf("logic")) = 1
    /\ calls[Len(calls)].events_json[2].id = 1

(***************************************************************************)
(* C26: the steps of a pass run in the order parse, index repair,          *)
(* construction, count repair.  A body that is not JSON raises whatever    *)
(* else it holds; index lists that the repair can mend are mended before   *)
(* the construction judges them, so such a payload is returned; a payload  *)
(* the repair or the construction refuses is not returned, its count is    *)
(* never repaired; and the count repair acts on every constructed object.  *)
(***************************************************************************)
C26_LogicOrder ==
    (pc = "logic_done" /\ raw # NoneVal) =>
        /\ raw.kind = "malformed" => logic_out = Raise("ValueError")
        /\ raw.kind = "object" =>
              IF ~IndexListsAreIntegers(raw) THEN logic_out.kind = "raise"
              ELSE IF OtherFieldsInDomain(raw)
                   THEN /\ Returned(logic_out)
                        /\ logic_out.value.total_contradictions_found =
                               Len(raw.contradictions.v)
                   ELSE logic_out = Raise("ValueError")

C26_ExtractOrder ==
    (pc = "extract_done" /\ raw # NoneVal) =>
        /\ raw.kind = "malformed" => extract_out = Raise("ValueError")
        /\ raw.kind = "object" =>
              IF /\ \A k \in 1..Len(raw.events) : raw.events[k].source_page >= 1
                 /\ raw.total_events_found >= 0
              THEN /\ Returned(extract_out)
                   /\ extract_out.value.events = raw.events
                   /\ extract_out.value.total_events_found = Len(raw.events)
              ELSE extract_out = Raise("ValueError")

C26_StepOrder == C26_LogicOrder /\ C26_ExtractOrder

C26_Witness ==
    /\ pc = "logic_done"
    /\ raw # NoneVal
    /\ raw.kind = "object"
    /\ raw.contradictions.t = "list"
    /\ Len(raw.contradictions.v) = 1
    /\ raw.contradictions.v[1].involved_event_ids = ListOf(<<0 - 1>>)
    /\ raw.total_contradictions_found = MaxContr
    /\ Returned(logic_out)
    /\ logic_out.value.contradictions[1].involved_event_ids = <<0>>
    /\ logic_out.value.total_contradictions_found = 1

(***************************************************************************)
(* C27: the contradictions of every returned LogicAnalysisResult and of    *)
(* every answer are ordered by severity, HIGH before MEDIUM before LOW,    *)
(* and within one severity by descending confidence_score.                 *)
(***************************************************************************)
SeverityRank(sev) == CASE sev = "HIGH" -> 0 [] sev = "MEDIUM" -> 1 [] OTHER -> 2

OrderedBySeverity(cs) ==
    \A k \in 1..(Len(cs) - 1) :
        \/ SeverityRank(cs[k].severity) < SeverityRank(cs[k + 1].severity)
        \/ /\ cs[k].severity = cs[k + 1].severity
           /\ cs[k].confidence_score >= cs[k + 1].confidence_score

C27_OrderedBySeverity ==
    /\ Returned(logic_out) => OrderedBySeverity(logic_out.value.contradictions)
    /\ result.kind = "response" => OrderedBySeverity(result.body.contradictions)

(***************************************************************************)
(* C28: extract_text_by_page skips the pages that yield no text.  The list *)
(* it returns holds exactly the pages that have text, with their 1-indexed *)
(* numbers ascending, and it raises PDFParsingError when no page of the    *)
(* document has text.                                                      *)
(***************************************************************************)
PageHasText(page) ==
    \E b \in 1..Len(page) : \E c \in 1..Len(page[b]) : ~IsSpace(page[b][c])

C28_TextlessPagesSkipped ==
    (pc # "pdf_start" /\ doc.kind = "pdf") =>
        IF \A k \in 1..Len(doc.pages) : ~PageHasText(doc.pages[k])
        THEN pages = Raise("PDFParsingError")
        ELSE /\ Returned(pages)
             /\ {pages.value[k].page_number : k \in 1..Len(pages.value)}
                    = {n \in 1..Len(doc.pages) : PageHasText(doc.pages[n])}
             /\ \A k \in 1..(Len(pages.value) - 1) :
                    pages.value[k].page_number < pages.value[k + 1].page_number

(***************************************************************************)
(* C29: build_prompt_text joins the page texts in page order.  A joined    *)
(* text of at most max_chars characters is returned as it is; a longer one *)
(* is returned as its first max_chars characters followed by the           *)
(* truncation marker, so the part taken from the document never exceeds    *)
(* the budget and the marker is appended exactly when text was cut.        *)
(***************************************************************************)
RECURSIVE JoinedInOrder(_)
JoinedInOrder(pgs) ==
    IF pgs = <<>> THEN <<>>
    ELSE IF Len(pgs) = 1 THEN pgs[1].text
    ELSE JoinedInOrder(SubSeq(pgs, 1, Len(pgs) - 1))
            \o <<"\n", "\n">> \o pgs[Len(pgs)].text

C29_PromptBudget ==
    pc = "pdf_prompt" =>
        LET joined == JoinedInOrder(pages.value)
            out == prompt_text.value
        IN IF Len(joined) <= max_chars
           THEN out = joined
           ELSE /\ Len(out) = max_chars + Len(TruncationMarker)
                /\ SubSeq(out, 1, max_chars) = SubSeq(joined, 1, max_chars)
                /\ SubSeq(out, max_chars + 1, Len(out)) = <<"\n", "\n", "[", "U", "]">>

C29_Witness ==
    /\ pc = "pdf_prompt"
    /\ Len(pages.value) = 1
    /\ Len(pages.value[1].text) = max_chars
    /\ prompt_text.value = pages.value[1].text



(***************************************************************************)
(* C30.  What a request answers when it is served alone: the two passes    *)
(* run one after the other on the answers of its scripts.                  *)
(***************************************************************************)
AlonePass(script, Finish(_)) ==
    LET x == script[1]
    IN IF x.t = "body" THEN Finish(x.body)
       ELSE IF x.err.kind = "OpenAIError" /\ ShouldFallbackToJsonObject(x.err.msg)
       THEN IF script[2].t = "body" THEN Finish(script[2].body)
            ELSE Raise(script[2].err.kind)
       ELSE Raise(x.err.kind)

AloneResult(se, sl) ==
    LET e == AlonePass(se, ExtractFinish)
    IN IF e.kind = "raise"
       THEN HttpError(IF e.exc = "ValueError" THEN 422 ELSE 500)
       ELSE IF e.value.events = <<>>
       THEN Response(FromPhases(e.value, EmptyTimelineResult))
       ELSE LET tl == e.value
                LogicOn(body) == LogicFinish(body, tl)
                g == AlonePass(sl, LogicOn)
            IN IF g.kind = "raise"
               THEN IF g.exc = "ValueError" THEN HttpError(422)
                    ELSE Response(FromPhases(tl, DegradedResult))
               ELSE Response(FromPhases(tl, g.value))

OwnClients(r) ==
    /\ \A k \in 1..Len(reqs[r].clients) : reqs[r].clients[k].owner = r
    /\ \A k \in 1..Len(reqs[r].calls) :
           reqs[r].calls[k].client \in Range(reqs[r].clients)

(* C30: under every interleaving of two analyze requests at their awaits,
   each request uses only clients it created itself, no client is shared by
   the two requests, the module-level state is never written, and the
   answer of a finished request is the answer it gives when served alone
   on the same provider answers. *)
C30_RequestsIndependent ==
    entry = "analyze_deep" /\ reqs # NoneVal =>
        /\ module_state = [client |-> NoneVal]
        /\ \A r \in Requests : OwnClients(r)
        /\ Range(reqs[1].clients) \cap Range(reqs[2].clients) = {}
        /\ \A r \in Requests :
               reqs[r].pc = "done" =>
                   reqs[r].result = AloneResult(reqs[r].script_e, reqs[r].script_l)

(* both requests ran interleaved through both passes, on different
   provider answers, and answered differently *)
C30_Witness ==
    /\ entry = "analyze_deep"
    /\ reqs # NoneVal
    /\ \A r \in Requests :
           /\ reqs[r].pc = "done"
           /\ reqs[r].overlapped
           /\ Len(reqs[r].clients) = 2
           /\ reqs[r].result.kind = "response"
    /\ Len(reqs[1].calls) = 4
    /\ reqs[1].result.body.contradictions # <<>>
    /\ reqs[2].result # reqs[1].result

====
